---------------------------- MODULE Spec2Model ----------------------------
(***************************************************************************)
(* Model of the Stablfy promo service (src/main.py, src/models.py,         *)
(* src/db.py): the redeem handler, the admin issuance handler, the admin   *)
(* guard, and the two tables they share.                                   *)
(*                                                                         *)
(* Strings that the code takes apart (codes, prefixes, the expiry date     *)
(* field) are sequences of one-character strings; tokens, device ids and   *)
(* notes are only compared, and stay TLA+ strings.  An optional value      *)
(* (None or a value) is the empty set or a singleton.                      *)
(*                                                                         *)
(* The store is the relational database behind SessionLocal.  db.py sets   *)
(* no isolation level and models.py declares no lock and no version        *)
(* column, so a statement sees what is committed when it runs (READ        *)
(* COMMITTED, the default of PostgreSQL), and every statement may fail     *)
(* with an SQLAlchemyError.  A handler is a coroutine that never awaits,   *)
(* so the requests of one server process run one after the other; requests *)
(* overlap when the service runs as several processes on the one store.    *)
(* A request is a step per statement it sends to the store.                *)
(***************************************************************************)
EXTENDS Integers, Sequences, FiniteSets, Bags, TLC

VARIABLES
    ADMIN_TOKEN,        \* main.py:18, read once at import: None or a string
    promo_codes,        \* table promo_codes: sequence of rows, id = index
    promo_redemptions,  \* table promo_redemptions: sequence of rows, id = index
    clock,              \* the UTC clock read by datetime.now
    redeems,            \* bag of POST /promo/redeem requests, running and answered;
                        \* fields eligible and committed are history: what the
                        \* store held on arrival, and whether the commit went through
    admins              \* bag of POST /admin/create requests, running and answered

vars == <<ADMIN_TOKEN, promo_codes, promo_redemptions, clock, redeems, admins>>

--------------------------------------------------------------------------
(* Bounds of the model *)

\* instants of the clock are 0..MaxTime
MaxTime == 2
\* redeem requests received in one run
MaxRedeems == 2
\* redeem requests received in one run of the race
MaxRacers == 3
\* issuance requests received in one run
MaxAdmins == 2
\* symbols of the alphabet the generator draws from (the first MaxDraw)
MaxDraw == 2
\* largest count, code_length, max_redemptions and bonus_questions submitted
MaxArg == 2

--------------------------------------------------------------------------
(* Optional values and strings *)

None == {}

Some(v) == {v}

Val(o) == CHOOSE v \in o : TRUE

Lower == <<"a","b","c","d","e","f","g","h","i","j","k","l","m",
           "n","o","p","q","r","s","t","u","v","w","x","y","z">>

UpperL == <<"A","B","C","D","E","F","G","H","I","J","K","L","M",
            "N","O","P","Q","R","S","T","U","V","W","X","Y","Z">>

Whitespace == {" "}

\* str.upper on one character
UpperChar(c) ==
    IF \E i \in 1..Len(Lower) : Lower[i] = c
    THEN UpperL[CHOOSE i \in 1..Len(Lower) : Lower[i] = c]
    ELSE c

\* str.upper
Upper(s) == [i \in 1..Len(s) |-> UpperChar(s[i])]

\* str.strip: drop the leading and the trailing whitespace
RECURSIVE LStrip(_)
LStrip(s) ==
    IF s # <<>> /\ Head(s) \in Whitespace THEN LStrip(Tail(s)) ELSE s

RECURSIVE RStrip(_)
RStrip(s) ==
    IF s # <<>> /\ s[Len(s)] \in Whitespace
    THEN RStrip(SubSeq(s, 1, Len(s) - 1))
    ELSE s

Strip(s) == RStrip(LStrip(s))

\* main.py:58
Normalize(s) == Upper(Strip(s))

--------------------------------------------------------------------------
(* Code generation, main.py:113-117 *)

\* the alphabet of _random_code: no 0, O, 1, I
Alphabet == <<"A","B","C","D","E","F","G","H","J","K","L","M","N","P","Q","R",
              "S","T","U","V","W","X","Y","Z","2","3","4","5","6","7","8","9">>

\* the symbols secrets.choice may return in the model
DrawChars == {Alphabet[i] : i \in 1..MaxDraw}

\* "".join(secrets.choice(alphabet) for _ in range(length)): every body the
\* generator can return; range(length) is empty for length <= 0
Bodies(length) ==
    IF length <= 0 THEN {<<>>} ELSE [1..length -> DrawChars]

\* the strings _random_code(prefix, length) can return
RandomCode(prefix, length) == {prefix \o body : body \in Bodies(length)}

\* the lists of codes the loop of _create_codes_in_db can build
CodeLists(count, prefix, length) ==
    IF count <= 0 THEN {<<>>} ELSE [1..count -> RandomCode(prefix, length)]

--------------------------------------------------------------------------
(* Admin guard, main.py:21-26 *)

\* require_admin without its first test: an unset token is never matched,
\* an empty one is matched by an empty field
require_admin_FailOpen(token) ==
    IF Some(token) # ADMIN_TOKEN THEN "forbidden" ELSE "ok"

\* the HTTPException require_admin raises for a token, or "ok"
require_admin(token) ==
    IF ADMIN_TOKEN = None \/ ADMIN_TOKEN = Some("")
    THEN "admin_token_not_configured"
    ELSE IF Some(token) # ADMIN_TOKEN
    THEN "forbidden"
    ELSE "ok"

--------------------------------------------------------------------------
(* Expiry date of an issuance request, main.py:253-260 *)

\* The date field is a sequence of whitespace characters and of chunks of
\* other text.  strptime(s, "%Y-%m-%d") accepts a string that is one date and
\* nothing else: DateOf gives the instant of its UTC midnight.
DateOf == [d \in {"2026-01-01", "2026-01-02"} |->
             IF d = "2026-01-01" THEN 1 ELSE 2]

\* ValueError of strptime
IsDate(s) == Len(s) = 1 /\ s[1] \in DOMAIN DateOf

\* the expires_at of a request, defined when ExpiresError is FALSE
ParseExpires(expires_date) ==
    IF Strip(expires_date) = <<>> THEN None
    ELSE Some(DateOf[Strip(expires_date)[1]])

ExpiresError(expires_date) ==
    Strip(expires_date) # <<>> /\ ~IsDate(Strip(expires_date))

--------------------------------------------------------------------------
(* The store *)

\* models.py:9-22
PromoCode(code, bonus_questions, expires_at, max_redemptions, notes) ==
    [code |-> code, bonus_questions |-> bonus_questions,
     expires_at |-> expires_at, max_redemptions |-> max_redemptions,
     redemptions_used |-> 0, notes |-> notes]

\* models.py:25-33
PromoRedemption(promo_code_id, device_id, redeemed_at) ==
    [promo_code_id |-> promo_code_id, device_id |-> device_id,
     redeemed_at |-> redeemed_at]

Range(s) == {s[i] : i \in 1..Len(s)}

StoredCodes == {promo_codes[i].code : i \in 1..Len(promo_codes)}

\* IntegrityError of the unique index on promo_codes.code (models.py:13) when
\* the rows of a batch are flushed
UniqueViolation(codes) ==
    \/ \E i \in 1..Len(codes) : codes[i] \in StoredCodes
    \/ \E i, j \in 1..Len(codes) : i # j /\ codes[i] = codes[j]

--------------------------------------------------------------------------
(* POST /admin/create, main.py:240-292 *)

\* one step of a bag: request old becomes request new
Replace(bag, old, new) == (bag (-) SetToBag({old})) (+) SetToBag({new})

\* the form fields of a well-formed request; the other requests of the model
\* differ from it in one field
BaseForm ==
    [token |-> "secret", prefix |-> <<"S">>, count |-> 1,
     bonus_questions |-> 1, max_redemptions |-> 1, code_length |-> 1,
     note |-> "promo", expires_date |-> <<>>]

Tokens == {"secret", "wrong", ""}

Prefixes == {<<"S">>, <<"s">>, <<" ", "S">>}

ExpiresDates == {<<>>, <<" ">>, <<" ", "2026-01-01">>, <<"2026-01-02">>,
                 <<"tomorrow">>, <<"2026-01-01", " ", "x">>}

\* integers below the documented minimum of 1 are submitted too: the form's
\* min attributes bind the browser, not the handler
IntArgs == -1..MaxArg

AdminForms ==
    {BaseForm}
    \cup {[BaseForm EXCEPT !.token = t] : t \in Tokens}
    \cup {[BaseForm EXCEPT !.prefix = p] : p \in Prefixes}
    \cup {[BaseForm EXCEPT !.count = n] : n \in IntArgs}
    \cup {[BaseForm EXCEPT !.bonus_questions = n] : n \in IntArgs}
    \cup {[BaseForm EXCEPT !.max_redemptions = n] : n \in IntArgs}
    \cup {[BaseForm EXCEPT !.code_length = n] : n \in IntArgs}
    \cup {[BaseForm EXCEPT !.expires_date = d] : d \in ExpiresDates}
    \cup {[BaseForm EXCEPT !.count = MaxArg, !.code_length = 0]}
    \cup {[BaseForm EXCEPT !.count = MaxArg, !.max_redemptions = MaxArg,
                           !.expires_date = <<"2026-01-01">>]}
    \cup {[BaseForm EXCEPT !.token = "wrong", !.expires_date = <<"tomorrow">>]}

\* the handler with the date parsed ahead of the token check
admin_create_DateFirst(form) ==
    /\ BagCardinality(admins) < MaxAdmins
    /\ LET guard == require_admin(form.token) IN
       IF ExpiresError(form.expires_date)
       THEN admins' = admins (+) SetToBag({[form |-> form, pc |-> "done",
                          codes |-> <<>>, result |-> "invalid_expires_date"]})
       ELSE IF guard # "ok"
       THEN admins' = admins (+) SetToBag({[form |-> form, pc |-> "done",
                          codes |-> <<>>, result |-> guard]})
       ELSE \E codes \in CodeLists(form.count, form.prefix, form.code_length) :
              admins' = admins (+) SetToBag({[form |-> form, pc |-> "commit",
                          codes |-> codes, result |-> "none"]})
    /\ UNCHANGED <<ADMIN_TOKEN, promo_codes, promo_redemptions, clock, redeems>>

\* main.py:251-260 and 130-145: the guard, the date, then the loop that
\* builds the rows in the session; nothing is sent to the store before commit
admin_create(form) ==
    /\ BagCardinality(admins) < MaxAdmins
    /\ LET guard == require_admin(form.token) IN
       IF guard # "ok"
       THEN admins' = admins (+) SetToBag({[form |-> form, pc |-> "done",
                          codes |-> <<>>, result |-> guard]})
       ELSE IF ExpiresError(form.expires_date)
       THEN admins' = admins (+) SetToBag({[form |-> form, pc |-> "done",
                          codes |-> <<>>, result |-> "invalid_expires_date"]})
       ELSE \E codes \in CodeLists(form.count, form.prefix, form.code_length) :
              admins' = admins (+) SetToBag({[form |-> form, pc |-> "commit",
                          codes |-> codes, result |-> "none"]})
    /\ UNCHANGED <<ADMIN_TOKEN, promo_codes, promo_redemptions, clock, redeems>>

\* the rows of a batch, main.py:136-143
BatchRows(a) ==
    [i \in 1..Len(a.codes) |->
        PromoCode(a.codes[i], a.form.bonus_questions,
                  ParseExpires(a.form.expires_date),
                  a.form.max_redemptions, a.form.note)]

\* the rows of a batch committed one by one, up to the first that the unique
\* index rejects
create_commit_RowByRow(a) ==
    /\ a.pc = "commit"
    /\ LET fits(k) == /\ \A i \in 1..k : a.codes[i] \notin StoredCodes
                      /\ \A i, j \in 1..k : i # j => a.codes[i] # a.codes[j]
           n == CHOOSE k \in 0..Len(a.codes) :
                   fits(k) /\ (k = Len(a.codes) \/ ~fits(k + 1))
       IN  /\ promo_codes' = promo_codes \o SubSeq(BatchRows(a), 1, n)
           /\ admins' = Replace(admins, a,
                  [a EXCEPT !.pc = "done",
                            !.result = IF n = Len(a.codes) THEN "created"
                                       ELSE "internal_server_error"])
    /\ UNCHANGED <<ADMIN_TOKEN, promo_redemptions, clock, redeems>>

\* main.py:147-149 and 272-292: db.commit() flushes the INSERTs and commits
\* them in one transaction, or raises and the session rolls back on exit; the
\* exception is not caught (HTTP 500, "internal_server_error")
create_commit(a) ==
    /\ a.pc = "commit"
    /\ \/ /\ ~UniqueViolation(a.codes)
          /\ promo_codes' = promo_codes \o BatchRows(a)
          /\ admins' = Replace(admins, a, [a EXCEPT !.pc = "done", !.result = "created"])
       \/ /\ UniqueViolation(a.codes)
          /\ promo_codes' = promo_codes
          /\ admins' = Replace(admins, a,
                          [a EXCEPT !.pc = "done", !.result = "internal_server_error"])
       \* any other failure of the store
       \/ /\ promo_codes' = promo_codes
          /\ admins' = Replace(admins, a,
                          [a EXCEPT !.pc = "done", !.result = "internal_server_error"])
    /\ UNCHANGED <<ADMIN_TOKEN, promo_redemptions, clock, redeems>>

--------------------------------------------------------------------------
(* POST /promo/redeem, main.py:56-106 *)

Devices == {"device-A", "device-B"}

\* the codes a client submits: the stored ones as issued, one of them typed
\* in lower case with blanks around it, and one that was never issued
RedeemCodes == StoredCodes \cup {<<" ", "s", "a", " ">>, <<"Z", "Z">>}

\* the request as answered with an HTTPException
Fail(q, detail) == [q EXCEPT !.pc = "done", !.result = detail]

\* the rows of promo_codes with a given code: at most one (unique index)
CodeIds(code_val) == {i \in 1..Len(promo_codes) : promo_codes[i].code = code_val}

\* the rows of promo_redemptions of a code and a device
RedemptionIds(promo_code_id, device_id) ==
    {j \in 1..Len(promo_redemptions) :
        /\ promo_redemptions[j].promo_code_id = promo_code_id
        /\ promo_redemptions[j].device_id = device_id}

\* the expiry check with < for <=
Expired_Strict(promo, now) == promo.expires_at # None /\ Val(promo.expires_at) < now

\* main.py:70-72
Expired(promo, now) == promo.expires_at # None /\ Val(promo.expires_at) <= now

\* the capacity check one redemption early
Exhausted_OffByOne(promo) == promo.redemptions_used + 1 >= promo.max_redemptions

\* main.py:74-76
Exhausted(promo) == promo.redemptions_used >= promo.max_redemptions

\* a code that exists, is unexpired, has capacity left and no record of the
\* device: the request that spec section 8 expects to succeed
Eligible(code_val, device_id, now) ==
    \E id \in CodeIds(code_val) :
        /\ \A e \in promo_codes[id].expires_at : e > now
        /\ promo_codes[id].redemptions_used < promo_codes[id].max_redemptions
        /\ RedemptionIds(id, device_id) = {}

\* main.py:57-59: the request arrives; the code is normalized and the clock
\* is read before the session is opened
redeem_promo(code, device_id) ==
    /\ redeems' = redeems (+) SetToBag({[code_val |-> Normalize(code),
                      device_id |-> device_id, now |-> clock, pc |-> "lookup",
                      promo_id |-> 0, used |-> 0, result |-> "none",
                      out |-> None, committed |-> FALSE,
                      eligible |-> Eligible(Normalize(code), device_id, clock)]})
    /\ UNCHANGED <<ADMIN_TOKEN, promo_codes, promo_redemptions, clock, admins>>

\* the lookup that answers an unknown code as an expired one
LookupResult_UnknownAsExpired(q) ==
    IF CodeIds(q.code_val) = {} THEN Fail(q, "expired")
    ELSE LET id == CHOOSE i \in CodeIds(q.code_val) : TRUE
             promo == promo_codes[id]
             loaded == [q EXCEPT !.promo_id = id, !.used = promo.redemptions_used]
         IN  IF Expired(promo, q.now) THEN Fail(loaded, "expired")
             ELSE IF Exhausted(promo) THEN Fail(loaded, "max_redemptions")
             ELSE [loaded EXCEPT !.pc = "check"]

\* the lookup with the capacity check ahead of the expiry check
LookupResult_CapacityFirst(q) ==
    IF CodeIds(q.code_val) = {} THEN Fail(q, "invalid_code")
    ELSE LET id == CHOOSE i \in CodeIds(q.code_val) : TRUE
             promo == promo_codes[id]
             loaded == [q EXCEPT !.promo_id = id, !.used = promo.redemptions_used]
         IN  IF Exhausted(promo) THEN Fail(loaded, "max_redemptions")
             ELSE IF Expired(promo, q.now) THEN Fail(loaded, "expired")
             ELSE [loaded EXCEPT !.pc = "check"]

\* what the lookup makes of the request when the SELECT returns, main.py:63-76
LookupResult(q) ==
    IF CodeIds(q.code_val) = {} THEN Fail(q, "invalid_code")
    ELSE LET id == CHOOSE i \in CodeIds(q.code_val) : TRUE
             promo == promo_codes[id]
             loaded == [q EXCEPT !.promo_id = id, !.used = promo.redemptions_used]
         IN  IF Expired(promo, q.now) THEN Fail(loaded, "expired")
             ELSE IF Exhausted(promo) THEN Fail(loaded, "max_redemptions")
             ELSE [loaded EXCEPT !.pc = "check"]

\* main.py:63-76: SELECT the PromoCode row, then the checks on the loaded row
redeem_lookup(q) ==
    /\ q.pc = "lookup"
    /\ \/ redeems' = Replace(redeems, q, LookupResult(q))
       \/ redeems' = Replace(redeems, q, Fail(q, "server_error"))
    /\ UNCHANGED <<ADMIN_TOKEN, promo_codes, promo_redemptions, clock, admins>>

\* the device check left out
CheckResult_NoDeviceCheck(q) == [q EXCEPT !.pc = "commit"]

\* what the device check makes of the request when the SELECT returns,
\* main.py:78-85: scalar_one_or_none raises MultipleResultsFound (an
\* SQLAlchemyError) when more than one row matches
CheckResult(q) ==
    LET n == Cardinality(RedemptionIds(q.promo_id, q.device_id)) IN
    IF n = 0 THEN [q EXCEPT !.pc = "commit"]
    ELSE IF n = 1 THEN Fail(q, "already_redeemed")
    ELSE Fail(q, "server_error")

\* the device check that counts the attempt it rejects
redeem_check_CountsRejected(q) ==
    /\ q.pc = "check"
    /\ \/ /\ redeems' = Replace(redeems, q, CheckResult(q))
          /\ promo_codes' =
                IF CheckResult(q).result = "already_redeemed"
                THEN [promo_codes EXCEPT ![q.promo_id].redemptions_used = q.used + 1]
                ELSE promo_codes
       \/ /\ redeems' = Replace(redeems, q, Fail(q, "server_error"))
          /\ promo_codes' = promo_codes
    /\ UNCHANGED <<ADMIN_TOKEN, promo_redemptions, clock, admins>>

\* main.py:78-85: SELECT the PromoRedemption of this code and device
redeem_check(q) ==
    /\ q.pc = "check"
    /\ \/ redeems' = Replace(redeems, q, CheckResult(q))
       \/ redeems' = Replace(redeems, q, Fail(q, "server_error"))
    /\ UNCHANGED <<ADMIN_TOKEN, promo_codes, promo_redemptions, clock, admins>>

\* the INSERT stamped with the time of the commit
InsertRedemption_AtCommit(q) ==
    Append(promo_redemptions, PromoRedemption(q.promo_id, q.device_id, clock))

\* the INSERT of main.py:88-93
InsertRedemption(q) ==
    Append(promo_redemptions, PromoRedemption(q.promo_id, q.device_id, q.now))

\* the UPDATE without its WHERE clause: every row gets the new value
UpdateUsed_AllRows(q) ==
    [id \in 1..Len(promo_codes) |->
        [promo_codes[id] EXCEPT !.redemptions_used = q.used + 1]]

\* the UPDATE of main.py:95-96: the ORM writes the attribute's new value, the
\* value loaded by the lookup plus one (SET redemptions_used = <value>)
UpdateUsed(q) ==
    [promo_codes EXCEPT ![q.promo_id].redemptions_used = q.used + 1]

\* main.py:87-98: db.commit() flushes the INSERT and the UPDATE and commits
\* them in one transaction, or raises and the session rolls back on exit
redeem_commit(q) ==
    /\ q.pc = "commit"
    /\ \/ /\ promo_redemptions' = InsertRedemption(q)
          /\ promo_codes' = UpdateUsed(q)
          /\ redeems' = Replace(redeems, q,
                          [q EXCEPT !.pc = "return", !.committed = TRUE])
       \/ /\ UNCHANGED <<promo_redemptions, promo_codes>>
          /\ redeems' = Replace(redeems, q, Fail(q, "server_error"))
    /\ UNCHANGED <<ADMIN_TOKEN, clock, admins>>

\* the response of main.py:100-103
PromoRedeemOut(promo) ==
    [bonusQuestions |-> promo.bonus_questions, expiresAt |-> promo.expires_at]

\* main.py:100-103: the session expires the loaded row on commit (db.py:10
\* leaves expire_on_commit at its default), so reading promo.bonus_questions
\* SELECTs the row again, inside the try block: the answer is built from the
\* reloaded row, or the SELECT fails and the request ends in server_error
redeem_return(q) ==
    /\ q.pc = "return"
    /\ \/ redeems' = Replace(redeems, q,
              [q EXCEPT !.pc = "done", !.result = "ok",
                        !.out = Some(PromoRedeemOut(promo_codes[q.promo_id]))])
       \/ redeems' = Replace(redeems, q, Fail(q, "server_error"))
    /\ UNCHANGED <<ADMIN_TOKEN, promo_codes, promo_redemptions, clock, admins>>

\* time passes
Tick ==
    /\ clock < MaxTime
    /\ clock' = clock + 1
    /\ UNCHANGED <<ADMIN_TOKEN, promo_codes, promo_redemptions, redeems, admins>>

--------------------------------------------------------------------------
(* Specifications *)

Init ==
    /\ ADMIN_TOKEN \in {None, Some(""), Some("secret")}
    /\ promo_codes = <<>>
    /\ promo_redemptions = <<>>
    /\ clock = 0
    /\ redeems = EmptyBag
    /\ admins = EmptyBag

AdminCreate == \E form \in AdminForms : admin_create(form)

CreateCommit == \E a \in BagToSet(admins) : create_commit(a)

NextIssue == AdminCreate \/ CreateCommit

\* issuance alone, with every form of the model
SpecIssue == Init /\ [][NextIssue]_vars

\* the forms issued beside the redeem requests: every one well-formed
RedeemForms ==
    {BaseForm,
     [BaseForm EXCEPT !.expires_date = <<"2026-01-01">>],
     [BaseForm EXCEPT !.count = MaxArg, !.max_redemptions = MaxArg,
                      !.expires_date = <<"2026-01-01">>]}

AdminCreateSome == \E form \in RedeemForms : admin_create(form)

RedeemPromo ==
    /\ BagCardinality(redeems) < MaxRedeems
    /\ \E code \in RedeemCodes, device_id \in Devices : redeem_promo(code, device_id)

RedeemLookup == \E q \in BagToSet(redeems) : redeem_lookup(q)

RedeemCheck == \E q \in BagToSet(redeems) : redeem_check(q)

RedeemCommit == \E q \in BagToSet(redeems) : redeem_commit(q)

RedeemReturn == \E q \in BagToSet(redeems) : redeem_return(q)

Next ==
    \/ AdminCreateSome
    \/ CreateCommit
    \/ RedeemPromo
    \/ RedeemLookup
    \/ RedeemCheck
    \/ RedeemCommit
    \/ RedeemReturn
    \/ Tick

\* redeem requests running concurrently with each other and with issuance
Spec == Init /\ [][Next]_vars

\* a redeem request arrives when no other one is running
RedeemPromoAlone ==
    /\ BagCardinality(redeems) < MaxRedeems
    /\ \A q \in BagToSet(redeems) : q.pc = "done"
    /\ \E code \in RedeemCodes, device_id \in Devices : redeem_promo(code, device_id)

NextSeq ==
    \/ AdminCreateSome
    \/ CreateCommit
    \/ RedeemPromoAlone
    \/ RedeemLookup
    \/ RedeemCheck
    \/ RedeemCommit
    \/ RedeemReturn
    \/ Tick

\* redeem requests that do not overlap
SpecSeq == Init /\ [][NextSeq]_vars

\* the form issued beside the racing requests: one code without expiry that
\* MaxArg devices may redeem
RaceForms == {[BaseForm EXCEPT !.max_redemptions = MaxArg]}

AdminCreateRace == \E form \in RaceForms : admin_create(form)

\* the requests of the race ask for stored codes
RedeemPromoRace ==
    /\ BagCardinality(redeems) < MaxRacers
    /\ \E code \in StoredCodes, device_id \in Devices : redeem_promo(code, device_id)

NextRace ==
    \/ AdminCreateRace
    \/ CreateCommit
    \/ RedeemPromoRace
    \/ RedeemLookup
    \/ RedeemCheck
    \/ RedeemCommit
    \/ RedeemReturn

\* up to MaxRacers redeem requests running side by side, time standing still
SpecRace == Init /\ [][NextRace]_vars

--------------------------------------------------------------------------
(* Claims *)

\* how many requests of a bag satisfy a test: the copies of each, summed
RECURSIVE Copies(_, _)
Copies(bag, S) ==
    IF S = {} THEN 0
    ELSE LET q == CHOOSE x \in S : TRUE
         IN  CopiesIn(q, bag) + Copies(bag, S \ {q})

\* the redeem requests answered with success for the code of row id
Successes(id) ==
    Copies(redeems, {q \in BagToSet(redeems) : q.result = "ok" /\ q.promo_id = id})

\* C1: a code with max_redemptions = N has at most N redeem requests answered
\* with success, whatever the interleaving of the requests.
C1_AtMostMaxSuccesses ==
    \A id \in 1..Len(promo_codes) :
        Successes(id) <= promo_codes[id].max_redemptions

\* C2: no two rows of promo_redemptions share (promo_code_id, device_id).
C2_OneRecordPerPair ==
    \A i, j \in 1..Len(promo_redemptions) :
        i # j => \/ promo_redemptions[i].promo_code_id # promo_redemptions[j].promo_code_id
                 \/ promo_redemptions[i].device_id # promo_redemptions[j].device_id

\* C3: every row of promo_codes has redemptions_used <= max_redemptions.
C3_UsedWithinMax ==
    \A id \in 1..Len(promo_codes) :
        promo_codes[id].redemptions_used <= promo_codes[id].max_redemptions

\* C3, for the codes issued with max_redemptions >= 0: the counter stays
\* within the cap, concurrent redeems included (each writes a value it read
\* below the cap, plus one).
UsedWithinMaxWhenCapNonNegative ==
    \A id \in 1..Len(promo_codes) :
        promo_codes[id].max_redemptions >= 0
            => promo_codes[id].redemptions_used <= promo_codes[id].max_redemptions

--------------------------------------------------------------------------
(* C4: the same code and device redeemed again, requests not overlapping *)

\* an earlier request of the same code and device was answered with success
RedeemedBefore(q) ==
    \E p \in BagToSet(redeems) :
        /\ p.pc = "done" /\ p.result = "ok"
        /\ p.code_val = q.code_val /\ p.device_id = q.device_id

\* this step answers the running request q, and r is q as answered; a step
\* that ends in server_error is a storage failure
Answers(q, r) ==
    /\ q.pc # "done" /\ r.pc = "done"
    /\ redeems' = Replace(redeems, q, r)

StoreUnchanged ==
    /\ promo_codes' = promo_codes
    /\ promo_redemptions' = promo_redemptions

\* the first check of main.py:70-85 that rejects a code and device already
\* redeemed
FirstFailingCheck(q) ==
    LET promo == promo_codes[CHOOSE i \in CodeIds(q.code_val) : TRUE] IN
    IF \E e \in promo.expires_at : e <= q.now THEN "expired"
    ELSE IF promo.redemptions_used >= promo.max_redemptions THEN "max_redemptions"
    ELSE "already_redeemed"

\* C4 as stated: once redeem(code, device) has succeeded, a later redeem of
\* the same code and device that meets no storage failure fails with
\* already_redeemed whatever the capacity left, and writes nothing.
C4_SecondAlwaysAlreadyRedeemed ==
    [][\A q \in BagToSet(redeems) :
          (q.pc # "done" /\ RedeemedBefore(q)) =>
              /\ redeems' # redeems => StoreUnchanged
              /\ \A r \in BagToSet(redeems') :
                    (Answers(q, r) /\ r.result # "server_error")
                        => r.result = "already_redeemed"]_vars

\* C4 as amended: once redeem(code, device) has succeeded, a later redeem of
\* the same code and device that meets no storage failure always fails, with
\* the first of expired, max_redemptions, already_redeemed whose check
\* rejects it (max_redemptions when the code is used up), and writes nothing.
C4_SecondFailsByFirstCheck ==
    [][\A q \in BagToSet(redeems) :
          (q.pc # "done" /\ RedeemedBefore(q)) =>
              /\ redeems' # redeems => StoreUnchanged
              /\ \A r \in BagToSet(redeems') :
                    (Answers(q, r) /\ r.result # "server_error")
                        => r.result = FirstFailingCheck(q)]_vars

\* a second redeem of a code and device answered already_redeemed after the
\* first one succeeded
C4_Witness ==
    \E p, q \in BagToSet(redeems) :
        /\ p.result = "ok" /\ q.result = "already_redeemed"
        /\ p.code_val = q.code_val /\ p.device_id = q.device_id

--------------------------------------------------------------------------
(* C5: the INSERT and the UPDATE of a redeem are committed together *)

\* every step leaves the records and the counters alone, or persists the
\* record and the counter write of one request at its commit
BothOrNeither ==
    \/ /\ promo_redemptions' = promo_redemptions
       /\ \A id \in 1..Len(promo_codes) : promo_codes'[id] = promo_codes[id]
    \/ \E q \in BagToSet(redeems) :
          /\ q.pc = "commit"
          /\ promo_redemptions' =
                Append(promo_redemptions,
                       PromoRedemption(q.promo_id, q.device_id, q.now))
          /\ promo_codes'[q.promo_id].redemptions_used = q.used + 1
          /\ \A id \in 1..Len(promo_codes) :
                id # q.promo_id => promo_codes'[id] = promo_codes[id]

\* C5: a redeem persists its record and its counter write together or not
\* at all, and a request answered server_error has persisted nothing.
C5_CommittedTogetherOrNotAtAll ==
    [][/\ BothOrNeither
       /\ \A r \in BagToSet(redeems') :
             (r.pc = "done" /\ r.result = "server_error") => ~r.committed]_vars

\* the two writes are never split, under any interleaving
C5_NeverSplit == [][BothOrNeither]_vars

--------------------------------------------------------------------------
(* C6: an eligible redeem succeeds, once per code and device *)

\* C6: with requests that do not overlap, a redeem of an existing, unexpired
\* code with capacity left by a device without a record of it, met by no
\* storage failure, is answered ok with the code's bonus_questions and
\* expires_at and leaves exactly one record of the pair; and no code and
\* device is answered ok twice.
C6_EligibleSucceedsOnce ==
    \A q \in BagToSet(redeems) :
        /\ (q.pc = "done" /\ q.eligible /\ q.result # "server_error") =>
              /\ q.result = "ok"
              /\ \E id \in CodeIds(q.code_val) :
                    /\ q.out = Some([bonusQuestions |-> promo_codes[id].bonus_questions,
                                     expiresAt |-> promo_codes[id].expires_at])
                    /\ Cardinality(RedemptionIds(id, q.device_id)) = 1
        /\ q.result = "ok" =>
              Copies(redeems, {p \in BagToSet(redeems) :
                                  /\ p.result = "ok"
                                  /\ p.code_val = q.code_val
                                  /\ p.device_id = q.device_id}) = 1

\* two devices have each redeemed the same code, one after the other
C6_Witness ==
    \E p, q \in BagToSet(redeems) :
        /\ p.result = "ok" /\ q.result = "ok"
        /\ p.eligible /\ q.eligible
        /\ p.code_val = q.code_val /\ p.device_id # q.device_id

--------------------------------------------------------------------------
(* C7: an expired code *)

\* C7: a request whose lookup loaded a code with expires_at set and at or
\* before the time the request read is answered expired, whatever the
\* counter, the cap and the records, and commits nothing.
C7_ExpiredRejected ==
    \A q \in BagToSet(redeems) :
        (q.promo_id # 0 /\ \E e \in promo_codes[q.promo_id].expires_at : e <= q.now) =>
            /\ q.pc = "done" /\ q.result = "expired"
            /\ ~q.committed

\* a request made at the very instant of expiry, for a code used up and
\* already redeemed by the device, is answered expired
C7_Witness ==
    \E q \in BagToSet(redeems) :
        /\ q.result = "expired"
        /\ promo_codes[q.promo_id].expires_at = Some(q.now)
        /\ promo_codes[q.promo_id].redemptions_used = promo_codes[q.promo_id].max_redemptions
        /\ RedemptionIds(q.promo_id, q.device_id) # {}

--------------------------------------------------------------------------
(* C8: no admin token configured *)

\* C8: when PROMO_ADMIN_TOKEN is unset or empty, every issuance request is
\* answered admin_token_not_configured, whatever token it carries, and no
\* code is persisted.
C8_FailClosed ==
    (ADMIN_TOKEN = None \/ ADMIN_TOKEN = Some("")) =>
        /\ promo_codes = <<>>
        /\ \A a \in BagToSet(admins) :
              a.pc = "done" /\ a.result = "admin_token_not_configured"

\* the configured token is empty and a request carrying an empty token has
\* been answered
C8_Witness ==
    /\ ADMIN_TOKEN = Some("")
    /\ \E a \in BagToSet(admins) : a.form.token = "" /\ a.pc = "done"

--------------------------------------------------------------------------
(* C9: the codes a batch returns *)

\* the code is the prefix followed by length symbols of the alphabet
WellFormed(code, prefix, length) ==
    /\ Len(code) = Len(prefix) + length
    /\ SubSeq(code, 1, Len(prefix)) = prefix
    /\ \A k \in (Len(prefix) + 1)..Len(code) : code[k] \in Range(Alphabet)

\* the code is persisted as a fresh row with the parameters of the form
Persisted(code, form) ==
    \E id \in 1..Len(promo_codes) :
        /\ promo_codes[id].code = code
        /\ promo_codes[id].redemptions_used = 0
        /\ promo_codes[id].bonus_questions = form.bonus_questions
        /\ promo_codes[id].max_redemptions = form.max_redemptions
        /\ promo_codes[id].expires_at = ParseExpires(form.expires_date)

ReturnsCodes(a) ==
    /\ Len(a.codes) = a.form.count
    /\ \A i, j \in 1..Len(a.codes) : i # j => a.codes[i] # a.codes[j]
    /\ \A i \in 1..Len(a.codes) :
          /\ Persisted(a.codes[i], a.form)
          /\ WellFormed(a.codes[i], a.form.prefix, a.form.code_length)

\* C9: a batch that returns has returned exactly count pairwise distinct
\* codes, each persisted with redemptions_used = 0 and the parameters given,
\* each the prefix followed by exactly code_length symbols of the alphabet.
C9_ReturnsCountDistinctCodes ==
    \A a \in BagToSet(admins) : a.result = "created" => ReturnsCodes(a)

\* C9, for the requests with count >= 0 and code_length >= 0
ReturnsCodesWhenArgsNonNegative ==
    \A a \in BagToSet(admins) :
        (a.result = "created" /\ a.form.count >= 0 /\ a.form.code_length >= 0)
            => ReturnsCodes(a)

--------------------------------------------------------------------------
(* C10: a batch is committed whole or not at all *)

\* a code of the batch is already stored, or occurs twice in the batch
Collides(codes) ==
    \/ \E i \in 1..Len(codes) :
          \E id \in 1..Len(promo_codes) : promo_codes[id].code = codes[i]
    \/ \E i, j \in 1..Len(codes) : i # j /\ codes[i] = codes[j]

\* the table has grown by one row per code of the batch, in order
AllPersisted(codes) ==
    /\ Len(promo_codes') = Len(promo_codes) + Len(codes)
    /\ SubSeq(promo_codes', 1, Len(promo_codes)) = promo_codes
    /\ \A i \in 1..Len(codes) : promo_codes'[Len(promo_codes) + i].code = codes[i]

\* C10: the step that ends a batch persists every code of it at once and
\* answers with the codes, or persists nothing and answers with an error;
\* a batch with a code that is already stored, by an earlier batch or by one
\* committed while this one was running, or with the same code twice, ends
\* in the error.
C10_BatchAllOrNothing ==
    [][\A a \in BagToSet(admins) : \A b \in BagToSet(admins') :
          (a.pc = "commit" /\ b.pc = "done" /\ admins' = Replace(admins, a, b)) =>
              /\ IF b.result = "created"
                 THEN AllPersisted(a.codes)
                 ELSE promo_codes' = promo_codes
              /\ Collides(a.codes) => b.result # "created"]_vars

\* a batch of two codes has failed, its second code being stored already
\* and its first code not
C10_Witness ==
    \E a \in BagToSet(admins) :
        /\ a.pc = "done" /\ a.result = "internal_server_error"
        /\ Len(a.codes) = 2
        /\ a.codes[1] \notin StoredCodes
        /\ a.codes[2] \in StoredCodes

--------------------------------------------------------------------------
(* C11: a code that matches no row *)

\* this step moves the request q, and r is q after the step
Moves(q, r) == r # q /\ redeems' = Replace(redeems, q, r)

\* C11: a redeem whose normalized code matches no row of promo_codes when
\* its lookup runs, met by no storage failure, is answered invalid_code by
\* that step, has committed nothing and leaves both tables as they were.
C11_UnknownCodeInvalid ==
    [][\A q \in BagToSet(redeems) : \A r \in BagToSet(redeems') :
          (/\ q.pc = "lookup" /\ Moves(q, r)
           /\ \A id \in 1..Len(promo_codes) : promo_codes[id].code # q.code_val
           /\ r.result # "server_error")
              => /\ r.pc = "done" /\ r.result = "invalid_code"
                 /\ ~r.committed
                 /\ StoreUnchanged]_vars

\* a code that was never issued has been answered invalid_code while other
\* codes are stored
C11_Witness ==
    \E q \in BagToSet(redeems) :
        /\ q.pc = "done" /\ q.result = "invalid_code"
        /\ q.code_val = <<"Z", "Z">>
        /\ promo_codes # <<>>

--------------------------------------------------------------------------
(* C12: the order of the checks *)

\* C12: the checks run in the order unknown code, expiry, capacity, device
\* record, and the first that fails is the answer: the lookup step answers
\* invalid_code when no row has the code, else expired when expires_at is
\* at or before the request's time, else max_redemptions when the counter
\* has reached the cap, whatever the records of the device; only a request
\* that passed these three is answered already_redeemed, by the device
\* check. Steps that meet a storage failure are left out.
C12_ChecksInOrder ==
    [][\A q \in BagToSet(redeems) : \A r \in BagToSet(redeems') :
          (Moves(q, r) /\ r.result # "server_error") =>
              /\ q.pc = "lookup" =>
                    LET ids == {id \in 1..Len(promo_codes) :
                                   promo_codes[id].code = q.code_val}
                    IN  IF ids = {} THEN r.result = "invalid_code"
                        ELSE \E id \in ids :
                           IF \E e \in promo_codes[id].expires_at : e <= q.now
                           THEN r.result = "expired"
                           ELSE IF promo_codes[id].redemptions_used
                                      >= promo_codes[id].max_redemptions
                           THEN r.result = "max_redemptions"
                           ELSE r.pc = "check" /\ r.result = "none"
              /\ q.pc = "check" =>
                    IF \E j \in 1..Len(promo_redemptions) :
                          /\ promo_redemptions[j].promo_code_id = q.promo_id
                          /\ promo_redemptions[j].device_id = q.device_id
                    THEN r.result = "already_redeemed"
                    ELSE r.pc = "commit" /\ r.result = "none"
              /\ r.result = "already_redeemed" => q.pc = "check"]_vars

\* a code at capacity, unexpired at the request's time, redeemed again by a
\* device that holds a record of it: the answer is max_redemptions
C12_Witness ==
    \E q \in BagToSet(redeems) :
        /\ q.result = "max_redemptions"
        /\ \A e \in promo_codes[q.promo_id].expires_at : e > q.now
        /\ \E j \in 1..Len(promo_redemptions) :
              /\ promo_redemptions[j].promo_code_id = q.promo_id
              /\ promo_redemptions[j].device_id = q.device_id

--------------------------------------------------------------------------
(* C13: the minimums of an issuance request *)

\* C13: every row of promo_codes has max_redemptions >= 1 and
\* bonus_questions >= 1, and an issuance request with count,
\* bonus_questions or max_redemptions below 1 persists no code.
C13_IssuedWithinMinimums ==
    /\ \A id \in 1..Len(promo_codes) :
          /\ promo_codes[id].max_redemptions >= 1
          /\ promo_codes[id].bonus_questions >= 1
    /\ \A a \in BagToSet(admins) :
          (\/ a.form.count < 1
           \/ a.form.bonus_questions < 1
           \/ a.form.max_redemptions < 1)
              => (a.result = "created" => a.codes = <<>>)

\* C13, for count alone: a request with count below 1 is answered with an
\* empty list of codes and persists nothing
NoCodeWhenCountBelowOne ==
    \A a \in BagToSet(admins) : a.form.count < 1 => a.codes = <<>>

--------------------------------------------------------------------------
(* C14: a rejected redeem writes nothing *)

\* the answers of the four checks
Rejections == {"invalid_code", "expired", "max_redemptions", "already_redeemed"}

\* C14: a redeem answered invalid_code, expired, max_redemptions or
\* already_redeemed has committed nothing, and the step that answers it
\* leaves both tables as they were, whatever other requests run beside it.
C14_RejectedWritesNothing ==
    [][\A q \in BagToSet(redeems) : \A r \in BagToSet(redeems') :
          (Answers(q, r) /\ r.result \in Rejections) =>
              /\ ~r.committed
              /\ StoreUnchanged]_vars

\* a request that was eligible when it arrived is answered already_redeemed:
\* a request of the same code and device running beside it committed first
C14_Witness ==
    \E q \in BagToSet(redeems) :
        q.pc = "done" /\ q.eligible /\ q.result = "already_redeemed"

--------------------------------------------------------------------------
(* C15: the admin token *)

\* C15: with a non-empty token configured, an issuance request whose token
\* differs is answered forbidden, whatever its expiry date (the token is
\* checked before the date is parsed), and has built and persisted no code;
\* every stored code is a code of a batch answered created whose token
\* equals the configured one.
C15_OnlyConfiguredToken ==
    \A t \in ADMIN_TOKEN :
        t # "" =>
            /\ \A a \in BagToSet(admins) :
                  a.form.token # t =>
                      /\ a.pc = "done" /\ a.result = "forbidden"
                      /\ a.codes = <<>>
            /\ \A id \in 1..Len(promo_codes) :
                  \E a \in BagToSet(admins) :
                      /\ a.form.token = t /\ a.result = "created"
                      /\ \E i \in 1..Len(a.codes) : a.codes[i] = promo_codes[id].code

\* a request with a wrong token and a date that does not parse has been
\* answered forbidden, beside a batch that was persisted
C15_Witness ==
    /\ ADMIN_TOKEN = Some("secret")
    /\ promo_codes # <<>>
    /\ \E a \in BagToSet(admins) :
          /\ a.form.token = "wrong" /\ a.form.expires_date = <<"tomorrow">>
          /\ a.result = "forbidden"

--------------------------------------------------------------------------
(* C16: counters only grow, rows are never deleted or rewritten *)

\* every step keeps the rows of promo_codes in place, adds new rows with
\* redemptions_used = 0 only, and keeps every record as it was written
AppendOnly ==
    /\ Len(promo_codes') >= Len(promo_codes)
    /\ \A id \in 1..Len(promo_codes) : promo_codes'[id].code = promo_codes[id].code
    /\ \A id \in (Len(promo_codes) + 1)..Len(promo_codes') :
          promo_codes'[id].redemptions_used = 0
    /\ Len(promo_redemptions') >= Len(promo_redemptions)
    /\ \A j \in 1..Len(promo_redemptions) : promo_redemptions'[j] = promo_redemptions[j]

\* C16: along every execution each code's redemptions_used starts at 0 and
\* never decreases from one state to the next, no row of promo_codes or
\* promo_redemptions is deleted, and no record is changed once written.
C16_MonotoneAppendOnly ==
    [][/\ AppendOnly
       /\ \A id \in 1..Len(promo_codes) :
             promo_codes'[id].redemptions_used >= promo_codes[id].redemptions_used]_vars

\* C16 without the counter: rows are only appended and records never change
C16_AppendOnly == [][AppendOnly]_vars

--------------------------------------------------------------------------
(* C17: what a redeem may change *)

\* the step changes nothing but the counter of the code c and the records
\* of c, which it may only add to
TouchesOnly(c) ==
    /\ Len(promo_codes') = Len(promo_codes)
    /\ \A id \in 1..Len(promo_codes) :
          /\ promo_codes'[id].code = promo_codes[id].code
          /\ promo_codes'[id].bonus_questions = promo_codes[id].bonus_questions
          /\ promo_codes'[id].expires_at = promo_codes[id].expires_at
          /\ promo_codes'[id].max_redemptions = promo_codes[id].max_redemptions
          /\ promo_codes[id].code # c => promo_codes'[id] = promo_codes[id]
    /\ Len(promo_redemptions') >= Len(promo_redemptions)
    /\ \A j \in 1..Len(promo_redemptions) : promo_redemptions'[j] = promo_redemptions[j]
    /\ \A j \in (Len(promo_redemptions) + 1)..Len(promo_redemptions') :
          promo_codes[promo_redemptions'[j].promo_code_id].code = c

\* C17: every step of a redeem of the code c, whatever its outcome, leaves
\* the code, bonus_questions, expires_at and max_redemptions of c, every
\* other row of promo_codes and every record of another code as they were;
\* the arrival of a request changes neither table.
C17_RedeemTouchesOwnCodeOnly ==
    [][/\ \A q \in BagToSet(redeems) : \A r \in BagToSet(redeems') :
             Moves(q, r) => TouchesOnly(q.code_val)
       /\ \A r \in BagToSet(redeems') :
             redeems' = redeems (+) SetToBag({r}) => StoreUnchanged]_vars

\* of two stored codes one has been redeemed with success and the other is
\* untouched
C17_Witness ==
    \E q \in BagToSet(redeems) : \E id \in 1..Len(promo_codes) :
        /\ q.pc = "done" /\ q.result = "ok"
        /\ promo_codes[q.promo_id].redemptions_used = 1
        /\ id # q.promo_id
        /\ promo_codes[id].redemptions_used = 0
        /\ \A j \in 1..Len(promo_redemptions) :
              promo_redemptions[j].promo_code_id = q.promo_id

--------------------------------------------------------------------------
(* C18: the counter and the records *)

\* the records of the code of row id
RecordsOf(id) ==
    {j \in 1..Len(promo_redemptions) : promo_redemptions[j].promo_code_id = id}

\* C18: in every reachable state, the redemptions_used of every code equals
\* the number of records that reference it, concurrent redeems included.
C18_UsedCountsRecords ==
    \A id \in 1..Len(promo_codes) :
        promo_codes[id].redemptions_used = Cardinality(RecordsOf(id))

--------------------------------------------------------------------------
(* C19: the codes a batch returns can be redeemed *)

\* C19: every stored code equals its own normalized form (trimmed and
\* upper-cased), whatever the prefix of the batch, so that a redeem
\* submitting the code as returned finds it.
C19_StoredCodesNormalized ==
    \A id \in 1..Len(promo_codes) :
        Normalize(promo_codes[id].code) = promo_codes[id].code

\* C19, for the batches whose prefix is its own normalized form
StoredCodesNormalizedWhenPrefixIs ==
    \A a \in BagToSet(admins) :
        (a.result = "created" /\ Normalize(a.form.prefix) = a.form.prefix)
            => \A i \in 1..Len(a.codes) : Normalize(a.codes[i]) = a.codes[i]

--------------------------------------------------------------------------
(* C20: a record is stamped before its code expires *)

\* C20: every record of a code with expires_at set has redeemed_at strictly
\* earlier than expires_at, redeemed_at being the time its request read on
\* arrival, also when the request commits after the code has expired.
C20_RedeemedBeforeExpiry ==
    \A j \in 1..Len(promo_redemptions) :
        LET rec == promo_redemptions[j] IN
        /\ \A e \in promo_codes[rec.promo_code_id].expires_at : rec.redeemed_at < e
        /\ \E q \in BagToSet(redeems) :
              /\ q.committed
              /\ q.promo_id = rec.promo_code_id /\ q.device_id = rec.device_id
              /\ q.now = rec.redeemed_at

\* a record stamped before the expiry of its code was committed after a
\* record of a request that arrived when that expiry had passed
C20_Witness ==
    \E i, j \in 1..Len(promo_redemptions) :
        /\ i < j
        /\ \E e \in promo_codes[promo_redemptions[j].promo_code_id].expires_at :
              /\ promo_redemptions[j].redeemed_at < e
              /\ promo_redemptions[i].redeemed_at > e

==========================================================================
